---- MODULE Spec2Model ----
(***************************************************************************)
(* The asynchronous redis client of pulsar.apps.redis: RedisClient, its    *)
(* pre_request hook _authenticate and the chain AUTH -> SELECT -> command  *)
(* it builds on a freshly acquired connection, the pipeline builder and    *)
(* execute_script.                                                         *)
(*                                                                         *)
(* The connection pool, the connection and the protocol consumer live in   *)
(* pulsar.Client and pulsar.apps.redis.client; their definitions below     *)
(* follow the interface the design document gives for them.                *)
(***************************************************************************)
EXTENDS Integers, Sequences, FiniteSets, TLC

\* ------------------------------------------------------------------ bounds
NumConnections == 2
MaxCalls == 2
MaxPipelines == 1
MaxErrors == 1
MaxScriptCalls == 2
MaxStringCalls == 1
MaxHttpCalls == 1

\* ------------------------------------------------------------- vocabulary
None == 0
NoneValue == "<None>"
Connections == 1..NumConnections
Databases == {0, 3}
Passwords == {NoneValue, "x"}
CallerCommands == {"GET"}
SetupCommands == {"auth", "select"}
Outcomes == {"ok", "error"}
ScriptNames == {"A", "B"}

\* Names bound in the namespace of pulsar/apps/redis/__init__.py: its imports
\* and its two top-level definitions. A name outside it raises NameError when
\* the statement using it runs.
ModuleGlobals ==
    {"namedtuple", "partial", "chain", "pulsar", "parse_connection_string",
     "Redis", "RedisProtocol", "RedisParser", "Request",
     "connection_info", "RedisClient"}

\* ---------------------------------------------------------------- objects
\* connection_info = namedtuple('connection_info', 'address db password timeout')
connection_info(db, password) == [db |-> db, password |-> password]

\* RedisClient.redis: the Redis object carrying the descriptor.
redis(db, password, full_response) ==
    [kind |-> "redis",
     connection_info |-> connection_info(db, password),
     full_response |-> full_response]

\* A pipeline of a Redis object: its command stack and transaction flag.
Pipeline(rc, command_stack, transaction) ==
    [kind |-> "pipeline",
     client |-> rc,
     connection_info |-> rc.connection_info,
     full_response |-> rc.full_response,
     command_stack |-> command_stack,
     transaction |-> transaction]

NoCallback == [fn |-> "none"]
\* partial(self._change_db, request) and partial(self._continue, request)
partial(fn, req) == [fn |-> fn, request |-> req]

\* Request(client, command_name, args, options, **inp_params)
Request(cl, command_name, args, release_connection, post_request) ==
    [client |-> cl,
     command_name |-> command_name,
     args |-> args,
     release_connection |-> release_connection,
     post_request |-> post_request]

NoRequest == Request(NoneValue, "<none>", <<>>, TRUE, NoCallback)

\* `not request` for a request argument that may be None.
NotRequest(req) == req.command_name = NoRequest.command_name

\* request.is_pipeline: a pipeline request is built with command name ''.
is_pipeline(req) == req.command_name = ""

\* Python truth value of connection_info.password and connection_info.db.
PasswordIsSet(p) == p \notin {NoneValue, ""}
DbIsSet(db) == db # 0

VARIABLES
    client,     \* the Redis object every call goes through (its descriptor)
    conns,      \* connection -> [processed, consumer, leased]
    wire,       \* connection -> the commands sent on it, in order
    handles,    \* the protocol consumers built so far
    hooks,      \* one record per run of the pre_request hook
    calls,      \* one record per call of request / request_pipeline
    scripts,    \* one record per call of execute_script
    made,       \* one record per call of from_connection_string
    served      \* one record per request HttpMixin._handle_request handled

vars == <<client, conns, wire, handles, hooks, calls, scripts, made, served>>

\* The mutable part of the state, threaded through the operators below.
State == [conns |-> conns, wire |-> wire, handles |-> handles,
          hooks |-> hooks, pick |-> None, built |-> NoneValue]

\* --------------------------------------------- pool, connection, consumer
\* A consumer is named by its connection and its rank among the consumers
\* that connection has had. NoHandle is Python's None; Built names the
\* consumer build_consumer has just returned, before it is attached.
Handle(c, i) == [c |-> c, i |-> i]
NoHandle == Handle(None, 0)
Built == Handle(None, 1)
Consumer(s, h) == s.handles[h.c][h.i]

\* Producer.build_consumer: a new protocol consumer, not yet attached.
build_consumer(s) ==
    [s EXCEPT !.built = [request |-> NoRequest, state |-> "new",
                         result |-> NoneValue, chained |-> NoHandle]]

\* Connection.set_consumer: detach (None) or attach a consumer; attaching
\* starts a new request/response cycle of the connection.
set_consumer(s, c, h) ==
    IF h = NoHandle
    THEN [s EXCEPT !.conns[c].consumer = None]
    ELSE [s EXCEPT !.handles[c] = Append(@, s.built),
                   !.conns[c].consumer = Len(s.handles[c]) + 1,
                   !.conns[c].processed = @ + 1]

\* connection.current_consumer
current_consumer(s, c) == Handle(c, s.conns[c].consumer)

\* ProtocolConsumer.chain_event(prev, 'post_request')
chain_event(s, h, prev) == [s EXCEPT !.handles[h.c][h.i].chained = prev]

\* The consumer starts a request: the command goes on the wire of the
\* consumer's connection.
start_request(s, h, req) ==
    [s EXCEPT !.handles[h.c][h.i].request = req,
              !.handles[h.c][h.i].state = "sent",
              !.wire[h.c] = Append(@, [command_name |-> req.command_name,
                                       args |-> req.args,
                                       handle |-> h])]

\* Client.response(request, response, new_connection): the pool's exchange
\* primitive. Without a response it takes a connection from the pool and
\* attaches a new consumer holding the request; the pre_request event of that
\* consumer is then due (fire_pre_request). With a response it starts the
\* request on that consumer's connection.
response(s, req, resp) ==
    IF resp = NoHandle
    THEN LET c  == s.pick
             s1 == build_consumer(s)
             s2 == set_consumer(s1, c, Built)
             h  == current_consumer(s2, c)
         IN  [s |-> [s2 EXCEPT !.handles[c][h.i].request = req,
                               !.conns[c].leased = TRUE],
              ret |-> h]
    ELSE [s |-> start_request(s, resp, req), ret |-> resp]

\* RedisClient.request
request(s, cl, command_name, args, resp, release_connection, post_request) ==
    LET req == Request(cl, command_name, args, release_connection, post_request)
        r   == response(s, req, resp)
    IN  IF r.ret # resp /\ ~cl.full_response
        THEN [s |-> r.s, ret |-> [kind |-> "on_finished", handle |-> r.ret]]
        ELSE [s |-> r.s, ret |-> [kind |-> "response", handle |-> r.ret]]

\* _chain_response with its two set_consumer calls in the other order: the
\* new consumer is attached and then the connection is left without one.
_chain_response_detaches_last(s, prev_response) ==
    LET connection == prev_response.c
        s1 == build_consumer(s)
        s2 == set_consumer(s1, connection, Built)
        rsp == current_consumer(s2, connection)
        s3 == set_consumer(s2, connection, NoHandle)
    IN  [s |-> chain_event(s3, rsp, prev_response), ret |-> rsp]

\* RedisClient._chain_response
_chain_response(s, prev_response) ==
    LET connection == prev_response.c
        s1 == build_consumer(s)
        s2 == set_consumer(s1, connection, NoHandle)
        s3 == set_consumer(s2, connection, Built)
        rsp == current_consumer(s3, connection)
    IN  [s |-> chain_event(s3, rsp, prev_response), ret |-> rsp]

\* _continue building the consumer of the caller's command and never
\* starting the command on it.
_continue_forgets(s, req, resp) ==
    LET r == _chain_response(s, resp)
    IN  [s |-> r.s, ret |-> r.ret]

\* RedisClient._continue
_continue(s, req, resp) ==
    LET r == _chain_response(s, resp)
    IN  response(r.s, req, r.ret)

\* _change_db without its test of connection_info.db: SELECT is never sent.
_change_db_no_select(s, req0, resp0) ==
    LET req == IF NotRequest(req0) THEN Consumer(s, resp0).request ELSE req0
        r   == IF NotRequest(req0) THEN [s |-> s, ret |-> resp0]
               ELSE _chain_response(s, resp0)
    IN  _continue(r.s, req, r.ret)

\* _change_db issuing SELECT without release_connection=False.
_change_db_releasing(s, req0, resp0) ==
    LET req == IF NotRequest(req0) THEN Consumer(s, resp0).request ELSE req0
        r   == IF NotRequest(req0) THEN [s |-> s, ret |-> resp0]
               ELSE _chain_response(s, resp0)
        cl  == req.client
        info == cl.connection_info
    IN  IF DbIsSet(info.db)
        THEN request(r.s, cl, "select", <<info.db>>, r.ret, TRUE,
                     partial("_continue", req))
        ELSE _continue(r.s, req, r.ret)

\* _change_db registering itself, not _continue, as the continuation of
\* SELECT.
_change_db_reentrant(s, req0, resp0) ==
    LET req == IF NotRequest(req0) THEN Consumer(s, resp0).request ELSE req0
        r   == IF NotRequest(req0) THEN [s |-> s, ret |-> resp0]
               ELSE _chain_response(s, resp0)
        cl  == req.client
        info == cl.connection_info
    IN  IF DbIsSet(info.db)
        THEN request(r.s, cl, "select", <<info.db>>, r.ret, FALSE,
                     partial("_change_db", req))
        ELSE _continue(r.s, req, r.ret)

\* RedisClient._change_db
_change_db(s, req0, resp0) ==
    LET req == IF NotRequest(req0) THEN Consumer(s, resp0).request ELSE req0
        r   == IF NotRequest(req0) THEN [s |-> s, ret |-> resp0]
               ELSE _chain_response(s, resp0)
        cl  == req.client
        info == cl.connection_info
    IN  IF DbIsSet(info.db)
        THEN request(r.s, cl, "select", <<info.db>>, r.ret, FALSE,
                     partial("_continue", req))
        ELSE _continue(r.s, req, r.ret)

\* _authenticate with `elif connection_info.db` written as `else`.
_authenticate_always_db(s, resp) ==
    IF s.conns[resp.c].processed <= 1
    THEN LET req == Consumer(s, resp).request
             cl  == IF is_pipeline(req) THEN req.client.client ELSE req.client
             info == cl.connection_info
         IN  IF PasswordIsSet(info.password)
             THEN request(s, cl, "auth", <<info.password>>, resp, FALSE,
                          partial("_change_db", req))
             ELSE _change_db(s, NoRequest, resp)
    ELSE [s |-> s, ret |-> [kind |-> "response", handle |-> resp]]

\* _authenticate without the `elif connection_info.db` branch.
_authenticate_no_db_branch(s, resp) ==
    IF s.conns[resp.c].processed <= 1
    THEN LET req == Consumer(s, resp).request
             cl  == IF is_pipeline(req) THEN req.client.client ELSE req.client
             info == cl.connection_info
         IN  IF PasswordIsSet(info.password)
             THEN request(s, cl, "auth", <<info.password>>, resp, FALSE,
                          partial("_change_db", req))
             ELSE [s |-> s, ret |-> [kind |-> "response", handle |-> resp]]
    ELSE [s |-> s, ret |-> [kind |-> "response", handle |-> resp]]

\* _authenticate without its test of connection.processed.
_authenticate_every_time(s, resp) ==
    LET req == Consumer(s, resp).request
        cl  == IF is_pipeline(req) THEN req.client.client ELSE req.client
        info == cl.connection_info
    IN  IF PasswordIsSet(info.password)
        THEN request(s, cl, "auth", <<info.password>>, resp, FALSE,
                     partial("_change_db", req))
        ELSE IF DbIsSet(info.db)
        THEN _change_db(s, NoRequest, resp)
        ELSE [s |-> s, ret |-> [kind |-> "response", handle |-> resp]]

\* _authenticate with the comparison of connection.processed turned round.
_authenticate_inverted(s, resp) ==
    IF s.conns[resp.c].processed >= 1
    THEN LET req == Consumer(s, resp).request
             cl  == IF is_pipeline(req) THEN req.client.client ELSE req.client
             info == cl.connection_info
         IN  IF PasswordIsSet(info.password)
             THEN request(s, cl, "auth", <<info.password>>, resp, FALSE,
                          partial("_change_db", req))
             ELSE IF DbIsSet(info.db)
             THEN _change_db(s, NoRequest, resp)
             ELSE [s |-> s, ret |-> [kind |-> "response", handle |-> resp]]
    ELSE [s |-> s, ret |-> [kind |-> "response", handle |-> resp]]

\* _authenticate leaving pipeline requests alone.
_authenticate_skips_pipeline(s, resp) ==
    IF s.conns[resp.c].processed <= 1 /\ ~is_pipeline(Consumer(s, resp).request)
    THEN LET req == Consumer(s, resp).request
             cl  == req.client
             info == cl.connection_info
         IN  IF PasswordIsSet(info.password)
             THEN request(s, cl, "auth", <<info.password>>, resp, FALSE,
                          partial("_change_db", req))
             ELSE IF DbIsSet(info.db)
             THEN _change_db(s, NoRequest, resp)
             ELSE [s |-> s, ret |-> [kind |-> "response", handle |-> resp]]
    ELSE [s |-> s, ret |-> [kind |-> "response", handle |-> resp]]

\* _authenticate issuing AUTH without release_connection=False.
_authenticate_releasing(s, resp) ==
    IF s.conns[resp.c].processed <= 1
    THEN LET req == Consumer(s, resp).request
             cl  == IF is_pipeline(req) THEN req.client.client ELSE req.client
             info == cl.connection_info
         IN  IF PasswordIsSet(info.password)
             THEN request(s, cl, "auth", <<info.password>>, resp, TRUE,
                          partial("_change_db", req))
             ELSE IF DbIsSet(info.db)
             THEN _change_db(s, NoRequest, resp)
             ELSE [s |-> s, ret |-> [kind |-> "response", handle |-> resp]]
    ELSE [s |-> s, ret |-> [kind |-> "response", handle |-> resp]]

\* RedisClient._authenticate, the pre_request hook
_authenticate(s, resp) ==
    IF s.conns[resp.c].processed <= 1
    THEN LET req == Consumer(s, resp).request
             cl  == IF is_pipeline(req) THEN req.client.client ELSE req.client
             info == cl.connection_info
         IN  IF PasswordIsSet(info.password)
             THEN request(s, cl, "auth", <<info.password>>, resp, FALSE,
                          partial("_change_db", req))
             ELSE IF DbIsSet(info.db)
             THEN _change_db(s, NoRequest, resp)
             ELSE [s |-> s, ret |-> [kind |-> "response", handle |-> resp]]
    ELSE [s |-> s, ret |-> [kind |-> "response", handle |-> resp]]

\* The pre_request event of a consumer response() has just attached: the
\* hook bound in RedisClient.__init__ runs once and, when it started nothing
\* on the consumer, the consumer starts its own request.
fire_pre_request(s, h) ==
    LET req == Consumer(s, h).request
        r   == _authenticate(s, h)
        s1  == [r.s EXCEPT !.hooks = Append(@,
                   [response |-> h, request |-> req, connection |-> h.c,
                    processed |-> s.conns[h.c].processed,
                    ret |-> r.ret,
                    sent |-> Len(r.s.wire[h.c]) - Len(s.wire[h.c])])]
    IN  IF Consumer(s1, h).state = "new"
        THEN start_request(s1, h, req)
        ELSE s1

\* request_pipeline closing no transaction: MULTI and the commands, no EXEC.
request_pipeline_no_exec(s, pipeline) ==
    LET commands == pipeline.command_stack
    IN  IF commands = <<>>
        THEN [s |-> s, ret |-> [kind |-> "empty", handle |-> NoHandle]]
        ELSE LET stack == IF pipeline.transaction
                          THEN <<"MULTI">> \o commands
                          ELSE commands
                 req == Request(pipeline, "", stack, TRUE, NoCallback)
                 r   == response(s, req, NoHandle)
             IN  IF pipeline.full_response
                 THEN [s |-> r.s, ret |-> [kind |-> "response", handle |-> r.ret]]
                 ELSE [s |-> r.s, ret |-> [kind |-> "on_finished", handle |-> r.ret]]

\* request_pipeline without its early return on an empty command stack.
request_pipeline_no_empty_check(s, pipeline) ==
    LET commands == pipeline.command_stack
        stack == IF pipeline.transaction
                 THEN <<"MULTI">> \o commands \o <<"EXEC">>
                 ELSE commands
        req == Request(pipeline, "", stack, TRUE, NoCallback)
        r   == response(s, req, NoHandle)
    IN  IF pipeline.full_response
        THEN [s |-> r.s, ret |-> [kind |-> "response", handle |-> r.ret]]
        ELSE [s |-> r.s, ret |-> [kind |-> "on_finished", handle |-> r.ret]]

\* RedisClient.request_pipeline
request_pipeline(s, pipeline) ==
    LET commands == pipeline.command_stack
    IN  IF commands = <<>>
        THEN [s |-> s, ret |-> [kind |-> "empty", handle |-> NoHandle]]
        ELSE LET stack == IF pipeline.transaction
                          THEN <<"MULTI">> \o commands \o <<"EXEC">>
                          ELSE commands
                 req == Request(pipeline, "", stack, TRUE, NoCallback)
                 r   == response(s, req, NoHandle)
             IN  IF pipeline.full_response
                 THEN [s |-> r.s, ret |-> [kind |-> "response", handle |-> r.ret]]
                 ELSE [s |-> r.s, ret |-> [kind |-> "on_finished", handle |-> r.ret]]

\* What a call reports when it raised nothing.
NotRaised == <<>>

\* What the callbacks given to execute_script return when called.
Callbacks == {"r1", "r2"}

\* execute_script calling the callback without returning what it returned.
execute_script_drops_result(to_load, callback) ==
    IF to_load # {}
    THEN IF "get_script" \notin ModuleGlobals
         THEN [raised |-> <<"NameError", "get_script">>, loads |-> {},
               callback_invoked |-> FALSE, ret |-> NoneValue]
         ELSE IF "multi_async" \notin ModuleGlobals
         THEN [raised |-> <<"NameError", "multi_async">>, loads |-> to_load,
               callback_invoked |-> FALSE, ret |-> NoneValue]
         ELSE [raised |-> NotRaised, loads |-> to_load,
               callback_invoked |-> FALSE, ret |-> "multi_async"]
    ELSE [raised |-> NotRaised, loads |-> {},
          callback_invoked |-> TRUE, ret |-> NoneValue]

\* RedisClient.execute_script. The loop body starts with get_script(name) and
\* the aggregate is built with multi_async(results): both names are looked up
\* in the module namespace when the statement runs. With nothing to load the
\* call returns callback(), here the value the callback returns.
execute_script(to_load, callback) ==
    IF to_load # {}
    THEN IF "get_script" \notin ModuleGlobals
         THEN [raised |-> <<"NameError", "get_script">>, loads |-> {},
               callback_invoked |-> FALSE, ret |-> NoneValue]
         ELSE IF "multi_async" \notin ModuleGlobals
         THEN [raised |-> <<"NameError", "multi_async">>, loads |-> to_load,
               callback_invoked |-> FALSE, ret |-> NoneValue]
         ELSE [raised |-> NotRaised, loads |-> to_load,
               callback_invoked |-> FALSE, ret |-> "multi_async"]
    ELSE [raised |-> NotRaised, loads |-> {},
          callback_invoked |-> TRUE, ret |-> callback]

\* ------------------------------------------------- from_connection_string
\* What parse_connection_string hands back: a scheme, an address and the
\* parameters of the string; kw are the keywords of the caller.
Schemes == {"redis", "http", ""}
Addresses == {"127.0.0.1:6379", "10.0.0.1:6380"}
EmptyDict == [k \in {} |-> NoneValue]
ParsedParams ==
    {d1 @@ d2 : d1 \in {EmptyDict, [db |-> 0], [db |-> 3]},
                d2 \in {EmptyDict, [password |-> "x"]}}
Keywords ==
    {d1 @@ d2 : d1 \in {EmptyDict, [db |-> 0], [db |-> 5]},
                d2 \in {EmptyDict, [password |-> "y"]}}

\* params.update(kw): the keys of kw replace those of params.
update(params, kw) == kw @@ params

\* A keyword argument with a default.
Keyword(params, key, default) ==
    IF key \in DOMAIN params THEN params[key] ELSE default

\* self.redis(address, **params), with db=0 and password=None by default.
redis_at(address, params) ==
    [address |-> address,
     client |-> redis(Keyword(params, "db", 0),
                      Keyword(params, "password", NoneValue),
                      Keyword(params, "full_response", FALSE))]

\* from_connection_string with params.update(kw) turned round: the string
\* wins over the keywords of the caller.
from_connection_string_string_wins(scheme, address, params, kw) ==
    IF scheme = "redis"
    THEN [raised |-> NotRaised, ret |-> redis_at(address, update(kw, params))]
    ELSE [raised |-> <<"ValueError">>, ret |-> NoneValue]

\* RedisClient.from_connection_string
from_connection_string(scheme, address, params, kw) ==
    IF scheme = "redis"
    THEN [raised |-> NotRaised, ret |-> redis_at(address, update(params, kw))]
    ELSE [raised |-> <<"ValueError">>, ret |-> NoneValue]

\* ------------------------------------------- HttpMixin (workers/http.py)
\* What req.wsgi() or the WSGI handler may raise. StopIteration, socket.error
\* and "Exception" (any other subclass of Exception) derive from Exception;
\* KeyboardInterrupt derives from BaseException only.
NoException == "none"
SocketErrors == {"socket.error EPIPE", "socket.error ECONNRESET"}
ExceptionSubclasses == {"StopIteration", "Exception"} \cup SocketErrors
Raisable == ExceptionSubclasses \cup {"KeyboardInterrupt"}

\* The interpreters the module runs on: e[0] on a socket.error works on
\* Python 2, where exceptions can be indexed, and raises TypeError on
\* Python 3.
Interpreters == {"python2", "python3"}

\* The requests served: what req.wsgi() raises, what the handler raises when
\* req.wsgi() raised nothing, and whether a write to the client fails.
HttpRequests ==
    {[wsgi |-> e, handler |-> NoException, write_fails |-> w] :
         e \in Raisable, w \in BOOLEAN}
    \cup {[wsgi |-> NoException, handler |-> e, write_fails |-> w] :
              e \in Raisable \cup {NoException}, w \in BOOLEAN}

\* HttpMixin.response: what leaves it. A socket.error is raised again; any
\* other Exception is raised again unless self.debug, where the traceback is
\* written to the client instead; what is no Exception passes through.
http_response(debug, req) ==
    IF req.handler = NoException THEN NoException
    ELSE IF req.handler \in SocketErrors THEN req.handler
    ELSE IF req.handler \in ExceptionSubclasses
    THEN IF ~debug THEN req.handler ELSE NoException
    ELSE req.handler

\* pulsar.http.utils.close(sock): one more close of the client socket.
close(r) == [r EXCEPT !.closed = @ + 1]

\* HttpMixin._handle_request: the except clauses in their order, then the
\* finally clause.
_handle_request(interpreter, debug, req) ==
    LET raised == IF req.wsgi # NoException THEN req.wsgi
                  ELSE http_response(debug, req)
        start == [closed |-> 0, escaped |-> NoException,
                  notified |-> FALSE, log |-> NoneValue]
        body ==
            IF raised = NoException THEN start
            ELSE IF raised = "StopIteration"
            THEN [start EXCEPT !.log = "debug"]
            ELSE IF raised \in SocketErrors
            THEN IF interpreter = "python3"
                 THEN [start EXCEPT !.escaped = "TypeError"]
                 ELSE IF raised # "socket.error EPIPE"
                 THEN [start EXCEPT !.log = "exception"]
                 ELSE [start EXCEPT !.log = "debug"]
            ELSE IF raised \in ExceptionSubclasses
            THEN [start EXCEPT !.log = "exception",
                               !.notified = ~req.write_fails]
            ELSE [start EXCEPT !.escaped = raised]
    IN  close(body)

\* ------------------------------------------------------------------- Init
Init ==
    /\ client \in {redis(db, pw, fr) : db \in Databases, pw \in Passwords,
                                       fr \in BOOLEAN}
    /\ conns = [c \in Connections |->
                    [processed |-> 0, consumer |-> None, leased |-> FALSE]]
    /\ wire = [c \in Connections |-> <<>>]
    /\ handles = [c \in Connections |-> <<>>]
    /\ hooks = <<>>
    /\ calls = <<>>
    /\ scripts = <<>>
    /\ made = <<>>
    /\ served = <<>>

Commit(s) ==
    /\ conns' = s.conns
    /\ wire' = s.wire
    /\ handles' = s.handles
    /\ hooks' = s.hooks

\* The command stacks a caller builds.
Stacks == {<<>>, <<"SET">>, <<"SET", "GET">>}

\* The pool lends an idle connection: one that served before, or the next
\* connection never used so far (new connections are alike).
Idle(c) ==
    /\ ~conns[c].leased
    /\ \/ conns[c].processed > 0
       \/ \A d \in Connections : d < c => conns[d].processed > 0

Pipelines == Cardinality({k \in 1..Len(calls) : calls[k].op = "pipeline"})

Errors == Cardinality({h \in UNION {{Handle(c, i) : i \in 1..Len(handles[c])} :
                                        c \in Connections} :
                          handles[h.c][h.i].result = "error"})

\* ---------------------------------------------------------------- actions
\* A caller issues one command through the client.
CallRequest ==
    /\ Len(calls) < MaxCalls
    /\ \E c \in Connections, name \in CallerCommands :
        /\ Idle(c)
        /\ LET r == request([State EXCEPT !.pick = c], client, name,
                            <<Len(calls) + 1>>, NoHandle, TRUE, NoCallback)
           IN  /\ Commit(fire_pre_request(r.s, r.ret.handle))
               /\ calls' = Append(calls, [op |-> "request", input |-> name,
                                          transaction |-> FALSE, ret |-> r.ret])
    /\ UNCHANGED <<client, scripts, made, served>>

\* A caller submits a pipeline.
CallRequestPipeline ==
    /\ Len(calls) < MaxCalls
    /\ Pipelines < MaxPipelines
    /\ \E c \in Connections, stack \in Stacks, tr \in BOOLEAN :
        /\ Idle(c)
        /\ LET r == request_pipeline([State EXCEPT !.pick = c],
                                     Pipeline(client, stack, tr))
           IN  /\ Commit(IF r.ret.handle = NoHandle THEN r.s
                         ELSE fire_pre_request(r.s, r.ret.handle))
               /\ calls' = Append(calls, [op |-> "pipeline", input |-> stack,
                                          transaction |-> tr, ret |-> r.ret])
    /\ UNCHANGED <<client, scripts, made, served>>

\* A caller runs execute_script with the scripts still to load.
CallExecuteScript ==
    /\ Len(scripts) < MaxScriptCalls
    /\ \E to_load \in SUBSET ScriptNames, callback \in Callbacks :
        scripts' = Append(scripts, [to_load |-> to_load, callback |-> callback]
                                       @@ execute_script(to_load, callback))
    /\ UNCHANGED <<client, conns, wire, handles, hooks, calls, made, served>>

\* A caller builds a client from a connection string.
CallFromConnectionString ==
    /\ Len(made) < MaxStringCalls
    /\ \E scheme \in Schemes, address \in Addresses,
          params \in ParsedParams, kw \in Keywords :
        made' = Append(made,
                    [scheme |-> scheme, address |-> address,
                     params |-> params, kw |-> kw]
                        @@ from_connection_string(scheme, address, params, kw))
    /\ UNCHANGED <<client, conns, wire, handles, hooks, calls, scripts, served>>

\* A worker handles one HTTP request.
HandleRequest ==
    /\ Len(served) < MaxHttpCalls
    /\ \E interpreter \in Interpreters, debug \in BOOLEAN, req \in HttpRequests :
        served' = Append(served,
                      [interpreter |-> interpreter, debug |-> debug, req |-> req]
                          @@ _handle_request(interpreter, debug, req))
    /\ UNCHANGED <<client, conns, wire, handles, hooks, calls, scripts, made>>

\* Number of commands of connection c the server has answered.
Answered(c) == Cardinality({i \in 1..Len(wire[c]) :
                              handles[c][wire[c][i].handle.i].state = "finished"})

\* The server answers the oldest unanswered command of a connection: the
\* consumer finishes, the connection is released unless the request asked to
\* keep it, and the request's post_request callback runs with the consumer.
ServerReply ==
    /\ \E c \in Connections, outcome \in Outcomes :
        /\ Answered(c) < Len(wire[c])
        /\ outcome = "error" => Errors < MaxErrors
        /\ \E h \in {wire[c][Answered(c) + 1].handle} :
           \E req \in {handles[c][h.i].request} :
           \E s1 \in {[State EXCEPT !.handles[c][h.i].state = "finished",
                                    !.handles[c][h.i].result = outcome]} :
           \E s2 \in {IF req.release_connection
                      THEN [s1 EXCEPT !.conns[c].leased = FALSE,
                                      !.conns[c].consumer = None]
                      ELSE s1} :
           \E r \in {IF req.post_request.fn = "_change_db"
                      THEN _change_db(s2, req.post_request.request, h)
                      ELSE IF req.post_request.fn = "_continue"
                      THEN _continue(s2, req.post_request.request, h)
                      ELSE [s |-> s2, ret |-> NoHandle]} :
               Commit(r.s)
    /\ UNCHANGED <<client, calls, scripts, made, served>>

Next ==
    \/ CallRequest
    \/ CallRequestPipeline
    \/ ServerReply

Spec == Init /\ [][Next]_vars

\* The server answers every command it receives.
FairSpec == Spec /\ WF_vars(ServerReply)

\* execute_script reads and changes none of the connection state: its calls
\* are explored on their own.
ScriptNext == CallExecuteScript

ScriptSpec == Init /\ [][ScriptNext]_vars

\* from_connection_string builds a client and touches no connection: its
\* calls are explored on their own.
StringNext == CallFromConnectionString

StringSpec == Init /\ [][StringNext]_vars

\* The HTTP worker shares nothing with the redis client: the requests it
\* handles are explored on their own.
HttpNext == HandleRequest

HttpSpec == Init /\ [][HttpNext]_vars

\* ------------------------------------------------- reading the histories
\* The consumer a chain of _chain_response links started from.
RECURSIVE Origin(_)
Origin(h) ==
    IF handles[h.c][h.i].chained = NoHandle THEN h
    ELSE Origin(handles[h.c][h.i].chained)

\* The commands sent, in order, by the exchange that began with consumer h0.
Exchange(h0) ==
    LET Mine(e) == Origin(e.handle) = h0
    IN  SelectSeq(wire[h0.c], Mine)

Names(seq) == [i \in 1..Len(seq) |-> seq[i].command_name]
IsPrefix(a, b) == Len(a) <= Len(b) /\ \A i \in 1..Len(a) : a[i] = b[i]
IsAnswered(e) == handles[e.handle.c][e.handle.i].state = "finished"
Result(e) == handles[e.handle.c][e.handle.i].result

\* Every command of the exchange but the last one sent has been answered.
OneAtATime(seq) == \A i \in 1..Len(seq) - 1 : IsAnswered(seq[i])

\* The arguments of the injected commands come from the descriptor, those of
\* the caller's command from the caller's request.
ArgsFrom(seq, req) ==
    \A i \in 1..Len(seq) :
        /\ seq[i].command_name = "auth" =>
               seq[i].args = <<client.connection_info.password>>
        /\ seq[i].command_name = "select" =>
               seq[i].args = <<client.connection_info.db>>
        /\ seq[i].command_name \notin SetupCommands => seq[i].args = req.args

\* The exchange sent so far is a non-empty beginning of `expected`, one
\* command at a time, and it is complete once every command sent is answered.
Follows(e, expected) ==
    LET seq == Exchange(e.response)
    IN  /\ Len(seq) >= 1
        /\ IsPrefix(Names(seq), expected)
        /\ OneAtATime(seq)
        /\ IsAnswered(seq[Len(seq)]) => Len(seq) = Len(expected)
        /\ ArgsFrom(seq, e.request)

HasPassword == PasswordIsSet(client.connection_info.password)
HasDb == DbIsSet(client.connection_info.db)
SingleCommands == {k \in 1..Len(hooks) : ~is_pipeline(hooks[k].request)}
Completed(e) ==
    LET seq == Exchange(e.response)
    IN  Len(seq) >= 1 /\ \A i \in 1..Len(seq) : IsAnswered(seq[i])

\* C1: with a password set, a request on a fresh connection (processed <= 1)
\* sends AUTH first on the connection, then SELECT exactly when the database
\* is non-default, then the caller's command; each command goes on the wire
\* only after the reply to the one before it.
C1_AuthSelectCommandInOrder ==
    \A k \in SingleCommands :
        (HasPassword /\ hooks[k].processed <= 1) =>
            /\ Follows(hooks[k],
                   <<"auth">> \o (IF HasDb THEN <<"select">> ELSE <<>>)
                              \o <<hooks[k].request.command_name>>)
            /\ wire[hooks[k].connection][1].command_name = "auth"

C1_Witness ==
    \E k \in SingleCommands :
        /\ HasPassword /\ HasDb /\ hooks[k].processed <= 1
        /\ Completed(hooks[k])
        /\ Names(Exchange(hooks[k].response)) = <<"auth", "select", "GET">>

\* C2: with no password and the default database, a request on a fresh
\* connection sends the caller's command and nothing else, and the hook hands
\* back the consumer it was given, untouched.
C2_NoSetupOneCommand ==
    \A k \in SingleCommands :
        (~HasPassword /\ ~HasDb /\ hooks[k].processed <= 1) =>
            /\ Names(Exchange(hooks[k].response)) =
                   <<hooks[k].request.command_name>>
            /\ ArgsFrom(Exchange(hooks[k].response), hooks[k].request)
            /\ wire[hooks[k].connection][1].handle = hooks[k].response
            /\ hooks[k].sent = 0
            /\ hooks[k].ret = [kind |-> "response", handle |-> hooks[k].response]

C2_Witness ==
    \E k \in SingleCommands :
        /\ ~HasPassword /\ ~HasDb /\ hooks[k].processed <= 1
        /\ Completed(hooks[k])

\* C3: when the hook runs on a connection whose processed count is above 1,
\* the exchange carries no AUTH and no SELECT, whatever the descriptor says.
C3_NoSetupOnUsedConnection ==
    \A k \in 1..Len(hooks) :
        hooks[k].processed > 1 =>
            /\ hooks[k].sent = 0
            /\ Names(Exchange(hooks[k].response)) =
                   <<hooks[k].request.command_name>>

C3_Witness ==
    \E k \in SingleCommands :
        /\ HasPassword /\ HasDb /\ hooks[k].processed > 1
        /\ Completed(hooks[k])

\* C4: with a password and a non-default database, a connection carries
\* AUTH, SELECT and then caller commands only: AUTH and SELECT are each sent
\* at most once per connection, before the first caller command, and every
\* later request served by the connection sends its command alone.
C4_SetupOncePerConnection ==
    (HasPassword /\ HasDb) =>
        \A c \in Connections :
            /\ \A i \in 1..Len(wire[c]) :
                   /\ wire[c][i].command_name = "auth" <=> i = 1
                   /\ wire[c][i].command_name = "select" <=> i = 2
            /\ \A k \in 1..Len(hooks) :
                   (hooks[k].connection = c /\ hooks[k].response.i > 1) =>
                       Len(Exchange(hooks[k].response)) = 1

C4_Witness ==
    /\ HasPassword /\ HasDb
    /\ \E c \in Connections :
        /\ Names(wire[c]) = <<"auth", "select", "GET", "GET">>
        /\ wire[c][3].args # wire[c][4].args
        /\ \A i \in 1..Len(wire[c]) : IsAnswered(wire[c][i])

\* C10: with no password and a non-default database, a request on a fresh
\* connection sends SELECT and then the caller's command, two commands in
\* that order, and never AUTH.
C10_SelectThenCommand ==
    \A k \in SingleCommands :
        (~HasPassword /\ HasDb /\ hooks[k].processed <= 1) =>
            /\ Follows(hooks[k], <<"select", hooks[k].request.command_name>>)
            /\ \A i \in 1..Len(wire[hooks[k].connection]) :
                   wire[hooks[k].connection][i].command_name # "auth"

C10_Witness ==
    \E k \in SingleCommands :
        /\ ~HasPassword /\ HasDb /\ hooks[k].processed <= 1
        /\ Completed(hooks[k])
        /\ Names(Exchange(hooks[k].response)) = <<"select", "GET">>

\* The hook records of the request a call submitted.
Submitted(k) == {j \in 1..Len(hooks) : hooks[j].response = calls[k].ret.handle}
Transactions ==
    {k \in 1..Len(calls) : /\ calls[k].op = "pipeline"
                           /\ calls[k].transaction
                           /\ calls[k].input # <<>>}

\* C5: a non-empty transactional pipeline of N commands submits one request,
\* whose command stack is MULTI, the N commands in their order, EXEC: N + 2
\* entries, sent as one command.
C5_TransactionStack ==
    \A k \in Transactions :
        /\ Cardinality(Submitted(k)) = 1
        /\ \A j \in Submitted(k) :
            /\ is_pipeline(hooks[j].request)
            /\ hooks[j].request.args =
                   <<"MULTI">> \o calls[k].input \o <<"EXEC">>
            /\ Len(hooks[j].request.args) = Len(calls[k].input) + 2
            /\ \A i \in 1..Len(Exchange(hooks[j].response)) :
                   LET e == Exchange(hooks[j].response)[i]
                   IN  e.command_name \notin SetupCommands =>
                           /\ e.command_name = ""
                           /\ e.args = hooks[j].request.args
                           /\ i = Len(Exchange(hooks[j].response))

C5_Witness ==
    \E k \in Transactions :
        /\ Len(calls[k].input) = 2
        /\ \E j \in Submitted(k) :
            /\ Completed(hooks[j])
            /\ \E i \in 1..Len(Exchange(hooks[j].response)) :
                   Exchange(hooks[j].response)[i].args =
                       <<"MULTI", "SET", "GET", "EXEC">>

\* The step in which a caller submits an empty pipeline.
EmptyPipelineCall ==
    /\ Len(calls') = Len(calls) + 1
    /\ calls'[Len(calls')].op = "pipeline"
    /\ calls'[Len(calls')].input = <<>>

\* C6: request_pipeline on an empty pipeline, transactional or not, returns
\* the empty sequence and neither builds a request, takes a connection nor
\* sends anything.
C6_EmptyPipelineNoOp ==
    [][EmptyPipelineCall =>
           /\ calls'[Len(calls')].ret = [kind |-> "empty", handle |-> NoHandle]
           /\ UNCHANGED <<conns, wire, handles, hooks>>]_vars

C6_Witness ==
    \E k \in 1..Len(calls) :
        /\ calls[k].op = "pipeline"
        /\ calls[k].transaction
        /\ calls[k].input = <<>>
        /\ calls[k].ret.kind = "empty"

\* The failures a set of script uploads can end in.
UploadFailures(loads) == {<<"ResponseError", n>> : n \in loads}

\* C7: with scripts to load, execute_script dispatches one script-load per
\* script and leaves the callback to run after all of them completed.
C7_OneUploadPerScript ==
    \A k \in 1..Len(scripts) :
        scripts[k].to_load # {} =>
            /\ scripts[k].raised = NotRaised
            /\ scripts[k].loads = scripts[k].to_load

\* C8: when execute_script fails with scripts to load, the error the caller
\* gets is the failure of one of the uploads it issued, and the callback was
\* not invoked.
C8_UploadFailureSurfaces ==
    \A k \in 1..Len(scripts) :
        (scripts[k].to_load # {} /\ scripts[k].raised # NotRaised) =>
            /\ scripts[k].raised \in UploadFailures(scripts[k].loads)
            /\ ~scripts[k].callback_invoked

\* C9: a setup command the server rejected is the last command of its
\* exchange: after a rejected AUTH neither SELECT nor the caller's command is
\* sent, after a rejected SELECT the caller's command is not sent.
C9_RejectedSetupAbortsChain ==
    \A k \in SingleCommands :
        LET seq == Exchange(hooks[k].response)
        IN  \A i \in 1..Len(seq) :
                (/\ seq[i].command_name \in SetupCommands
                 /\ IsAnswered(seq[i])
                 /\ Result(seq[i]) = "error") => i = Len(seq)

\* The pipeline requests the hook has seen.
PipelineRequests == {k \in 1..Len(hooks) : is_pipeline(hooks[k].request)}

\* The setup commands the descriptor of the client under a pipeline asks for.
SetupOf(rc) ==
    (IF PasswordIsSet(rc.connection_info.password) THEN <<"auth">> ELSE <<>>)
        \o (IF DbIsSet(rc.connection_info.db) THEN <<"select">> ELSE <<>>)

Chosen(m, key, default) ==
    IF key \in DOMAIN m.kw THEN m.kw[key]
    ELSE IF key \in DOMAIN m.params THEN m.params[key]
    ELSE default

\* C12: from_connection_string takes the scheme redis only: any other scheme
\* raises ValueError within the call and builds no client; for redis the
\* client is built at the parsed address from the parsed parameters, the
\* keywords of the caller replacing those of the string.
C12_OnlyRedisScheme ==
    \A k \in 1..Len(made) :
        /\ made[k].scheme # "redis" =>
               /\ made[k].raised = <<"ValueError">>
               /\ made[k].ret = NoneValue
        /\ made[k].scheme = "redis" =>
               /\ made[k].raised = NotRaised
               /\ made[k].ret.address = made[k].address
               /\ made[k].ret.client.connection_info.db =
                      Chosen(made[k], "db", 0)
               /\ made[k].ret.client.connection_info.password =
                      Chosen(made[k], "password", NoneValue)

C12_Witness ==
    \E k \in 1..Len(made) :
        /\ made[k].scheme = "redis"
        /\ made[k].params = [db |-> 3, password |-> "x"]
        /\ made[k].kw = [db |-> 5]
        /\ made[k].ret.client.connection_info = connection_info(5, "x")

\* The calls of request that got a completion object back (the client is
\* not in full-response mode).
Deferred == {k \in 1..Len(calls) : /\ calls[k].op = "request"
                                    /\ calls[k].ret.kind = "on_finished"}

\* C13: the completion object request returned resolves with the reply to
\* the caller's own command: the consumer it belongs to has not finished
\* while only AUTH or SELECT has been answered, and when it has finished its
\* result is the reply to the caller's command.
C13_ResolvesWithOwnReply ==
    \A k \in Deferred :
        LET h == calls[k].ret.handle
        IN  handles[h.c][h.i].state = "finished" =>
                \E i \in 1..Len(Exchange(h)) :
                    LET e == Exchange(h)[i]
                    IN  /\ e.command_name = calls[k].input
                        /\ e.args = <<k>>
                        /\ IsAnswered(e)
                        /\ e.handle = h

\* C14: a connection in use has exactly one consumer attached, the newest
\* one built for it, and that consumer is the only one of the connection
\* waiting for a reply: when _chain_response attaches the consumer of the
\* next step the one before it is detached. A connection back in the pool
\* has none.
C14_OneConsumerAttached ==
    \A c \in Connections :
        /\ conns[c].leased =>
               /\ conns[c].consumer # None
               /\ conns[c].consumer = Len(handles[c])
               /\ \A i \in 1..Len(handles[c]) :
                      handles[c][i].state = "sent" <=> i = conns[c].consumer
        /\ ~conns[c].leased =>
               /\ conns[c].consumer = None
               /\ \A i \in 1..Len(handles[c]) : handles[c][i].state # "sent"

C14_Witness ==
    \E c \in Connections :
        /\ conns[c].leased
        /\ conns[c].consumer = 2
        /\ handles[c][1].state = "finished"
        /\ handles[c][2].chained = Handle(c, 1)
        /\ handles[c][2].state = "sent"

\* The request that put a command on the wire.
RequestOf(e) == handles[e.handle.c][e.handle.i].request

\* C15: AUTH and SELECT are issued with release_connection=False; from the
\* first setup command until the reply to the caller's command the
\* connection stays out of the pool, and it is back in the pool once the
\* caller's command is answered.
C15_HeldUntilCommandAnswered ==
    \A k \in 1..Len(hooks) :
        LET seq == Exchange(hooks[k].response)
        IN  /\ \A i \in 1..Len(seq) :
                   seq[i].command_name \in SetupCommands =>
                       ~RequestOf(seq[i]).release_connection
            /\ ~Completed(hooks[k]) => conns[hooks[k].connection].leased
            /\ (/\ Completed(hooks[k])
                 /\ seq[Len(seq)].handle.i = Len(handles[hooks[k].connection]))
                    => ~conns[hooks[k].connection].leased

C15_Witness ==
    \E k \in 1..Len(hooks) :
        LET seq == Exchange(hooks[k].response)
        IN  /\ Names(seq) = <<"auth", "select", "GET">>
            /\ IsAnswered(seq[2])
            /\ ~IsAnswered(seq[3])
            /\ conns[hooks[k].connection].leased

\* The exchange a command on the wire of connection c belongs to.
OriginAt(c, i) == Origin(wire[c][i].handle)

\* C16: with several callers going through the pool at once, the commands of
\* two exchanges are never interleaved on a connection: a connection carries
\* the commands of one exchange in a row, a command of another exchange is
\* sent on it only when every command of the exchanges before is answered,
\* and at most one command of a connection is waiting for its reply.
C16_NoInterleaving ==
    \A c \in Connections :
        /\ \A i, j \in 1..Len(wire[c]) :
               (i < j /\ OriginAt(c, i) # OriginAt(c, j)) =>
                   /\ IsAnswered(wire[c][i])
                   /\ \A m \in j..Len(wire[c]) :
                          OriginAt(c, m) # OriginAt(c, i)
        /\ Answered(c) + 1 >= Len(wire[c])

C16_Witness ==
    /\ Len(calls) = 2
    /\ Names(wire[1]) = <<"auth", "select">>
    /\ ~IsAnswered(wire[1][2])
    /\ Names(wire[2]) = <<"auth">>
    /\ ~IsAnswered(wire[2][1])
    /\ conns[1].leased /\ conns[2].leased

\* The last command sent on connection c is AUTH or SELECT and its reply is
\* still to come: the chain is AUTH-pending or SELECT-pending.
SetupPending(c) ==
    /\ wire[c] # <<>>
    /\ wire[c][Len(wire[c])].command_name \in SetupCommands
    /\ ~IsAnswered(wire[c][Len(wire[c])])

\* The last command sent on connection c is a caller's command and its
\* consumer has finished, with a result or with an error.
ChainEnded(c) ==
    /\ wire[c] # <<>>
    /\ wire[c][Len(wire[c])].command_name \notin SetupCommands
    /\ IsAnswered(wire[c][Len(wire[c])])

\* C17: when the server answers every command it is sent, a chain that is
\* waiting for the reply to AUTH or SELECT does not wait for ever: the
\* caller's command is sent and its consumer finishes.
C17_ChainEnds ==
    \A c \in Connections : SetupPending(c) ~> ChainEnded(c)

C17_Witness ==
    \E c \in Connections :
        /\ ChainEnded(c)
        /\ ~conns[c].leased
        /\ Names(wire[c]) = <<"auth", "select", "GET">>
        /\ Result(wire[c][1]) = "error"

\* C18: with nothing to load execute_script calls the callback within the
\* call, uploads no script and returns what the callback returned.
C18_NothingToLoad ==
    \A k \in 1..Len(scripts) :
        scripts[k].to_load = {} =>
            /\ scripts[k].raised = NotRaised
            /\ scripts[k].callback_invoked
            /\ scripts[k].loads = {}
            /\ scripts[k].ret = scripts[k].callback

C18_Witness ==
    \E k \in 1..Len(scripts) :
        /\ scripts[k].to_load = {}
        /\ scripts[k].callback = "r2"
        /\ scripts[k].ret = "r2"

\* How many commands of an exchange carry a given name.
Count(seq, name) ==
    Cardinality({i \in 1..Len(seq) : seq[i].command_name = name})

C20_ClosedOnceNothingEscapes ==
    \A k \in 1..Len(served) :
        /\ served[k].closed = 1
        /\ served[k].escaped = NoException

====
